---- MODULE Spec2Model ----
(***************************************************************************)
(* A model of the divisible-token protocol (DAP) of divtokens: the GGM     *)
(* constrained PRF, the sparse Merkle tree, the Schnorr signature, the     *)
(* Groth16 spend relation, the client wallet and the server's issue and    *)
(* redeem operations.                                                      *)
(*                                                                         *)
(* Cryptographic primitives are modelled symbolically.  A 32-byte block is *)
(* a sequence of integers: a seed <<s>> followed by the branch bits the    *)
(* PRG was applied with.  BLAKE3 and Poseidon are collision-free: a digest *)
(* is the term of its input.  A field element is a sequence of integers    *)
(* too (the canonical block it is the residue of, or a bracketed Poseidon  *)
(* term).  The Schnorr group is Z_Q, a point being its discrete logarithm. *)
(***************************************************************************)
EXTENDS Integers, Sequences, FiniteSets, TLC

(* ------------------------------ bounds --------------------------------- *)

\* Height of the wallet tree of the modelled server/client variant
\* (Server12/Client12 of the source, scaled down).
MaxHeight == 2
\* Coins per redeem bundle.
MaxCoins == 2
\* Redeem calls per behaviour.
MaxRedeems == 2
\* Order of the scalar field of the inner curve (scaled down).
Q == 3
\* Height of the trees of the Merkle specification.
MerkleN == 2
\* Issue requests per client.
MaxWallet == 2
\* Callers of redeem in the concurrent specification.
MaxWorkers == 2
\* Depth of the trees of the GGM specification.
MaxDepth == 3
\* Coins a client precomputes, and redeem requests it makes.
MaxPrecompute == 2
MaxEmit == 2
\* Tokens a sap issue_request asks for, tokens drawn per behaviour, and sap
\* redeem calls per behaviour.
MaxBatch == 2
MaxTokens == 3
MaxSapRedeems == 2

HEIGHT12 == MaxHeight

RECURSIVE Pow2(_)
Pow2(n) == IF n = 0 THEN 1 ELSE 2 * Pow2(n - 1)

Last(s) == s[Len(s)]
Front(s) == SubSeq(s, 1, Len(s) - 1)

(* ------------------------------- PRG ----------------------------------- *)

\* blake3::Hasher: update(key), update([b]), finalize.  Collision-free: the
\* digest is the term of everything absorbed.
Blake3(key, b) == Append(key, b)

\* Fault: the two blocks of PRG::eval in the other order.
PRG_eval_swapped(key) == <<Blake3(key, 1), Blake3(key, 0)>>

\* PRG::eval: both blocks.
PRG_eval(key) == <<Blake3(key, 0), Blake3(key, 1)>>

\* Fault: PRG::evalf taking the other branch.
PRG_evalf_swapped(bit, key) == IF bit THEN Blake3(key, 0) ELSE Blake3(key, 1)

\* PRG::evalf: one branch.
PRG_evalf(bit, key) == IF bit THEN Blake3(key, 1) ELSE Blake3(key, 0)

(* ------------------------------- GGM ----------------------------------- *)

\* GGM::eval: walk the tree along the bits of x, first bit first.
RECURSIVE GGM_eval(_, _)
GGM_eval(key, x) ==
    IF x = <<>> THEN key
    ELSE GGM_eval(PRG_evalf(Head(x), key), Tail(x))

\* Fault: an expansion that lists the right subtree first.
RECURSIVE GGM_expand_right_first(_, _)
GGM_expand_right_first(key, depth) ==
    IF depth = 0 THEN <<key>>
    ELSE LET blocks == PRG_eval(key)
         IN  GGM_expand_right_first(blocks[2], depth - 1)
                \o GGM_expand_right_first(blocks[1], depth - 1)

\* GGM::expand: all leaves at the given depth, left subtree first.
RECURSIVE GGM_expand(_, _)
GGM_expand(key, depth) ==
    IF depth = 0 THEN <<key>>
    ELSE IF depth = 1 THEN PRG_eval(key)
    ELSE LET blocks == PRG_eval(key)
         IN  GGM_expand(blocks[1], depth - 1) \o GGM_expand(blocks[2], depth - 1)

\* u16_to_bv: the 16 bits of x, most significant first, of which the last
\* bv_len are kept.
u16_to_bv(x, bv_len) ==
    LET bv == [k \in 1..16 |-> ((x \div Pow2(16 - k)) % 2) = 1]
    IN  SubSeq(bv, 16 - bv_len + 1, 16)

(* -------------------------- field elements ----------------------------- *)

\* A 32-byte string whose little-endian integer is that of `block` plus the
\* field modulus: another encoding of the same residue.
NonCanonical(block) == Append(block, 2)

\* Fp256::from_le_bytes_mod_order: the residue of the block.
RECURSIVE from_le_bytes_mod_order(_)
from_le_bytes_mod_order(bytes) ==
    IF Len(bytes) > 1 /\ Last(bytes) = 2
    THEN from_le_bytes_mod_order(Front(bytes))
    ELSE bytes

\* FieldHasher::hash_two / hash(&[a, b]) of Poseidon, collision-free.
hash_two(a, b) == <<-1>> \o a \o <<-2>> \o b \o <<-3>>

\* CanonicalSerialize / CanonicalDeserialize: only a canonical encoding
\* deserializes.
Serialize(v) == [canonical |-> TRUE, repr |-> v]
Malformed(v) == [canonical |-> FALSE, repr |-> v]
Deserialize(bytes) == [ok |-> bytes.canonical, val |-> bytes.repr]

(* ------------------------ sparse Merkle tree --------------------------- *)

is_root(index) == index = 0
\* Fault: the right child taken for the left one.
RightForLeft(index) == 2 * index + 2

left_child(index) == 2 * index + 1
right_child(index) == 2 * index + 2
is_left_child(index) == index % 2 = 1
\* Fault: a node taken for its own sibling.
SameNode(index) == index

sibling(index) == IF is_left_child(index) THEN index + 1 ELSE index - 1
parent(index) == (index - 1) \div 2

\* insert_batch, the loop over the levels: every index of the level gets the
\* hash of its two children, and its parent goes to the next level.
RECURSIVE FoldLevels(_, _, _, _)
FoldLevels(tree, level_idxs, level, N) ==
    IF level = N \/ level_idxs = {} THEN tree
    ELSE LET hashed == [i \in level_idxs |->
                          hash_two(tree[left_child(i)], tree[right_child(i)])]
             tree2 == [p \in (DOMAIN tree) \cup level_idxs |->
                          IF p \in level_idxs THEN hashed[p] ELSE tree[p]]
             new_idxs == {parent(i) : i \in {k \in level_idxs : ~is_root(k)}}
         IN  FoldLevels(tree2, new_idxs, level + 1, N)

\* insert_batch: the leaves go to the last level, then the levels are folded.
\* `leaves` maps 0-based leaf indices to field elements.
insert_batch(tree, leaves, N) ==
    LET last_level_index == Pow2(N) - 1
        withLeaves == [p \in (DOMAIN tree) \cup {last_level_index + i : i \in DOMAIN leaves} |->
                          IF p - last_level_index \in DOMAIN leaves
                          THEN leaves[p - last_level_index] ELSE tree[p]]
        level_idxs == {parent(last_level_index + i) : i \in DOMAIN leaves}
    IN  FoldLevels(withLeaves, level_idxs, 0, N)

\* SparseMerkleTree::new and new_sequential (N >= 1): the tree of a
\* sequence of leaves, leaf i (0-based) being leaves[i + 1].
new_sequential(leaves, N) ==
    LET pairs == [i \in 0..(Len(leaves) - 1) |-> leaves[i + 1]]
        empty == [p \in {} |-> <<>>]
    IN  insert_batch(empty, pairs, N)

\* SparseMerkleTree::root
root(tree) == tree[0]

\* generate_membership_proof, the walk from a node up to the root.
RECURSIVE PathFrom(_, _)
PathFrom(tree, current_node) ==
    IF is_root(current_node) THEN <<>>
    ELSE LET current == tree[current_node]
             sib == tree[sibling(current_node)]
             pair == IF is_left_child(current_node)
                     THEN <<current, sib>> ELSE <<sib, current>>
         IN  <<pair>> \o PathFrom(tree, parent(current_node))

convert_index_to_last_level(index, height) == index + Pow2(height) - 1

\* SparseMerkleTree::generate_membership_proof
generate_membership_proof(tree, index, N) ==
    PathFrom(tree, convert_index_to_last_level(index, N))

\* Path::calculate_root, the loop over the levels.
RECURSIVE CalcLevels(_, _)
CalcLevels(path, prev) ==
    IF path = <<>> THEN [ok |-> TRUE, err |-> "", val |-> prev]
    ELSE LET left_hash == Head(path)[1]
             right_hash == Head(path)[2]
         IN  IF prev # left_hash /\ prev # right_hash
             THEN [ok |-> FALSE, err |-> "InvalidPathNodes", val |-> <<>>]
             ELSE CalcLevels(Tail(path), hash_two(left_hash, right_hash))

\* Path::calculate_root (a path of N >= 1 pairs).
calculate_root(path, leaf) ==
    IF leaf # path[1][1] /\ leaf # path[1][2]
    THEN [ok |-> FALSE, err |-> "InvalidLeaf", val |-> <<>>]
    ELSE CalcLevels(path, leaf)

\* Path::check_membership: an error of calculate_root is passed on.
check_membership(path, root_hash, leaf) ==
    LET r == calculate_root(path, leaf)
    IN  IF r.ok THEN [ok |-> TRUE, err |-> "", val |-> (r.val = root_hash)]
        ELSE [ok |-> FALSE, err |-> r.err, val |-> FALSE]

\* Path::get_index, the loop over the levels: a level adds its power of
\* two when the running hash is not the left entry of the pair.
RECURSIVE IndexLevels(_, _, _)
IndexLevels(path, prev, twopower) ==
    IF path = <<>> THEN 0
    ELSE LET left_hash == Head(path)[1]
             right_hash == Head(path)[2]
         IN  (IF prev # left_hash THEN twopower ELSE 0)
                + IndexLevels(Tail(path), hash_two(left_hash, right_hash),
                              twopower + twopower)

\* Path::get_index: membership first, its error passed on and false turned
\* into InvalidLeaf.
get_index(path, root_hash, leaf) ==
    LET m == check_membership(path, root_hash, leaf)
    IN  IF ~m.ok THEN [ok |-> FALSE, err |-> m.err, val |-> 0]
        ELSE IF ~m.val THEN [ok |-> FALSE, err |-> "InvalidLeaf", val |-> 0]
        ELSE [ok |-> TRUE, err |-> "", val |-> IndexLevels(path, leaf, 1)]

(* ------------------------------ Schnorr -------------------------------- *)

Scalars == 0..(Q - 1)

\* Parameters.generator: the point G, a point being its discrete logarithm.
generator == 1

\* Fault: a group addition that drops its second operand.
PointFirst(p1, p2) == p1

\* AffineCurve::mul and the group addition.
PointMul(point, scalar) == (point * scalar) % Q
PointAdd(p1, p2) == (p1 + p2) % Q

\* keygen: the public key of a secret scalar.
keygen(secret_key) == PointMul(generator, secret_key)

\* PoseidonSponge: absorb the bytes of the commitment and of the message,
\* squeeze 32 bytes.  Collision-free.
PoseidonSqueeze32(commitment, message) == <<commitment>> \o message

RECURSIVE SumAbs(_)
SumAbs(s) ==
    IF s = <<>> THEN 0
    ELSE (IF Head(s) < 0 THEN 0 - Head(s) ELSE Head(s)) + SumAbs(Tail(s))

\* C::ScalarField::from_le_bytes_mod_order of a 32-byte challenge.
ScalarFromBytes(challenge) == SumAbs(challenge) % Q

\* Schnorr::sign with the random scalar drawn from the rng.
sign(sk, message, random_scalar) ==
    LET prover_commitment == PointMul(generator, random_scalar)
        verifier_challenge == PoseidonSqueeze32(prover_commitment, message)
        verifier_challenge_fe == ScalarFromBytes(verifier_challenge)
        prover_response == (random_scalar + Q * Q - verifier_challenge_fe * sk) % Q
    IN  [prover_response |-> prover_response,
         verifier_challenge |-> verifier_challenge]

\* Schnorr::verify
verify(pk, message, signature) ==
    LET verifier_challenge_fe == ScalarFromBytes(signature.verifier_challenge)
        claimed_prover_commitment ==
            PointAdd(PointMul(generator, signature.prover_response),
                     PointMul(pk, verifier_challenge_fe))
        obtained_verifier_challenge ==
            PoseidonSqueeze32(claimed_prover_commitment, message)
    IN  signature.verifier_challenge = obtained_verifier_challenge

(* ------------------------------ Groth16 -------------------------------- *)

\* SpendCircuit::generate_constraints: the relation of the circuit of
\* height N, on a witness [sig, root, com, open, path] and the public leaf.
SpendRelation(N, pk, w, leaf) ==
    /\ w.sig.ok
    /\ verify(pk, w.com, w.sig.val)
    /\ hash_two(w.root, w.open) = w.com
    /\ Len(w.path) = N
    /\ LET m == check_membership(w.path, w.root, leaf) IN m.ok /\ m.val

\* GrothSetup::prove with the proving key of circuit `circ`: the proof
\* carries the public input it was made for and whether the witness
\* satisfied the circuit.
prove(circ, pk, w, leaf) ==
    [circ |-> circ, input |-> leaf, sat |-> SpendRelation(circ, pk, w, leaf)]

\* Fault: a verifier that accepts every proof.
AcceptAnyProof(vk, public_input, proof) == TRUE

\* GrothSetup::verify with the verifying key of circuit `vk`.
GrothVerify(vk, public_input, proof) ==
    /\ proof.circ = vk
    /\ proof.sat
    /\ proof.input = public_input

(* ------------------------------- state --------------------------------- *)

VARIABLES
    testRng,        \* the first scalar test_rng() yields, the same at every call
    sk,             \* Server.sk
    height,         \* $height of the generated server/client variant
    hset,           \* Server.hset, the double-spend index
    signed,         \* the signature each wallet of the environment holds, if any
    last,           \* the last redeem call: request, index before, outcome
    acceptedSets,   \* the leaf sets of the bundles accepted so far, in order
    spent,          \* per wallet, the value of its coins accepted so far
    nRedeems,       \* redeem calls so far
    borrowers,      \* the callers that hold the server by &mut self
    frames,         \* per caller, its frame of Server::redeem
    creq,           \* the request the callers submit
    wallet,         \* Client.wallet
    reqs,           \* issue requests on their way to the server
    rsps,           \* issue responses on their way to the client
    panicked,       \* the client has panicked
    lastProc,       \* the last issue_process call: response, wallet before
    trips,          \* the issue round trips completed, with their outcome;
    emitted,        \* the redeem requests the client has made: value asked, coins
                    \* direct: made for the newest entry, nothing else under way
    mN,             \* height of the tree of the Merkle specification
    mLeaves,        \* its batch of leaves
    mTree,          \* the SparseMerkleTree built of them
    mProof,         \* the last membership proof generated
    mChecked,       \* the last check_membership call
    mIndex,         \* the last Path::get_index: leaf asked, result
    gKey,           \* the key of the GGM specification
    gDepth,         \* its depth
    gLeaves,        \* the last GGM::expand output
    gEval,          \* the last GGM::eval call
    gBlocks,        \* the last PRG::eval output
    gF,             \* the last PRG::evalf call
    gSub,           \* the last delegation: prefix length, node, leaves replayed
    sMsg,           \* the message of the Schnorr specification
    sSig,           \* the signature made on it
    sVer,           \* the last Schnorr::verify call
    tokens,         \* sap Client.tokens
    blinded_tokens, \* sap Client.blinded_tokens
    unblinded_tokens, \* sap Client.unblinded_tokens
    bloom,          \* sap Server.bloom, the preimages set
    sapPhase,       \* where the issuance round of the sap client stands
    sapMsg,         \* the issue request or response on its way
    sapSent,        \* the last sap issue_request: batch size, tokens before, sent
    sapProc,        \* the last sap issue_process: verified, lengths after
    sapLast,        \* the last sap redeem: coins, filter before, spent before, valid
    sapAccepted,    \* the preimages of the bundles the sap server accepted
    sapMade,        \* tokens drawn so far
    nSapRedeems     \* sap redeem calls so far

sapVars == <<tokens, blinded_tokens, unblinded_tokens, bloom, sapPhase, sapMsg,
             sapSent, sapProc, sapLast, sapAccepted, sapMade, nSapRedeems>>
serverVars == <<testRng, sk, hset, height>>
redeemVars == <<signed, last, acceptedSets, spent, nRedeems>>
concVars == <<borrowers, frames, creq>>
clientVars == <<wallet, reqs, rsps, panicked, lastProc, trips, emitted>>
merkleVars == <<mN, mLeaves, mTree, mProof, mChecked, mIndex>>
ggmVars == <<gKey, gDepth, gLeaves, gEval, gBlocks, gF, gSub>>
schnorrVars == <<sMsg, sSig, sVer>>
pureVars == <<ggmVars, schnorrVars>>

(* ------------------------------- server -------------------------------- *)

\* PP.pk (Server::new: keygen)
pk == keygen(sk)

\* Server.groth_vks (Server::new): one verifying key per height 0..=$height,
\* a key being the height of its circuit.
groth_vks == [lvl \in 1..(height + 1) |-> lvl - 1]

\* PP.groth_pks (Server::new): the proving keys, pushed with the verifying
\* keys.
groth_pks == [lvl \in 1..(height + 1) |-> lvl - 1]

\* Server::issue: sign the commitment of the request; the random scalar is
\* the first draw of a fresh test_rng().
issue(req) ==
    LET com == Deserialize(req.com)
        sig == sign(sk, com.val, testRng)
    IN  IF ~com.ok THEN [ok |-> FALSE, sig |-> <<>>]
        ELSE [ok |-> TRUE,
              sig |-> [prover_response |-> Serialize(sig.prover_response),
                       verifier_challenge |-> sig.verifier_challenge]]

\* Fault: an index that reports no leaf as present.
ContainsNever(index, leaf) == FALSE

\* HashSet::contains on the double-spend index.
Contains(index, leaf) == leaf \in index

\* Fault: an insert that keeps the new leaf only.
InsertReplacing(index, leaf) == {leaf}

\* Fault: an insert that records nothing.
InsertNothing(index, leaf) == index

\* HashSet::insert on the double-spend index.
Insert(index, leaf) == index \cup {leaf}

\* Fault: the verifying key picked by the coin's denom.
VkByDenom(coin) == coin.denom

\* The index into groth_vks that redeem verifies a coin with.
VkIndex(coin) == HEIGHT12

\* A frame of Server::redeem: the position in the request (coin i, leaf j),
\* and once pc = "done" the outcome.
StartFrame ==
    [pc |-> "coin", i |-> 1, j |-> 1, result |-> "", why |-> "", vks |-> <<>>,
     expanded |-> 0]

Done(f, result, why) == [f EXCEPT !.pc = "done", !.result = result, !.why = why]

\* Fault: a redeem that does not compare the first leaf with the instance.
NeverMismatch(j, leaf, instance) == FALSE

\* The test on the first leaf of a coin: j == 0 && leaf != instance, j
\* counted from 1 here.
Mismatch(j, leaf, instance) == j = 1 /\ leaf # instance

\* One step of Server::redeem on the index h: the frame and the index after.
RedeemStep(f, h, req) ==
    IF f.pc = "coin" THEN
        IF f.i > Len(req.coins)
        THEN [f |-> Done(f, "true", ""), h |-> h]
        ELSE IF ~Deserialize(req.coins[f.i].instance_bytes).ok
                \/ ~Deserialize(req.coins[f.i].proof_bytes).ok
        THEN [f |-> Done(f, "panic", "deserialize"), h |-> h]
        ELSE LET n == Len(GGM_expand(req.coins[f.i].key, req.coins[f.i].denom))
             IN  [f |-> [f EXCEPT !.pc = "check", !.j = 1,
                                  !.expanded = IF n > @ THEN n ELSE @],
                  h |-> h]
    ELSE LET coin == req.coins[f.i]
             instance == Deserialize(coin.instance_bytes).val
             proof == Deserialize(coin.proof_bytes).val
             leaves_bytes == GGM_expand(coin.key, coin.denom)
         IN
    IF f.pc = "check" THEN
        IF f.j > Len(leaves_bytes)
        THEN [f |-> [f EXCEPT !.pc = "verify"], h |-> h]
        ELSE LET leaf == from_le_bytes_mod_order(leaves_bytes[f.j])
             IN  IF Mismatch(f.j, leaf, instance)
                 THEN [f |-> Done(f, "false", "mismatch"), h |-> h]
                 ELSE IF Contains(h, leaf)
                 THEN [f |-> Done(f, "false", "spent"), h |-> h]
                 ELSE [f |-> [f EXCEPT !.pc = "insert"], h |-> h]
    ELSE IF f.pc = "insert" THEN
        [f |-> [f EXCEPT !.pc = "check", !.j = f.j + 1],
         h |-> Insert(h, from_le_bytes_mod_order(leaves_bytes[f.j]))]
    ELSE IF f.pc = "verify" THEN
        IF VkIndex(coin) + 1 > Len(groth_vks)
        THEN [f |-> Done(f, "panic", "index"), h |-> h]
        ELSE LET vk == groth_vks[VkIndex(coin) + 1]
                 f2 == [f EXCEPT !.vks = Append(f.vks, vk)]
             IN  IF ~GrothVerify(vk, instance, proof)
                 THEN [f |-> Done(f2, "false", "proof"), h |-> h]
                 ELSE [f |-> [f2 EXCEPT !.pc = "coin", !.i = f.i + 1], h |-> h]
    ELSE [f |-> f, h |-> h]

\* Server::redeem from a frame to its return.
RECURSIVE RedeemRun(_, _, _)
RedeemRun(f, h, req) ==
    IF f.pc = "done" THEN [f |-> f, h |-> h]
    ELSE LET n == RedeemStep(f, h, req) IN RedeemRun(n.f, n.h, req)

\* Server::redeem
redeem(h, req) == RedeemRun(StartFrame, h, req)

(* ------------------------------- wallets -------------------------------- *)

\* Option<Signature>::None
None == [ok |-> FALSE, val |-> [prover_response |-> 0, verifier_challenge |-> <<>>]]
Some(sig) == [ok |-> TRUE, val |-> sig]

\* The opening Fr::rand yields on a fresh test_rng().
OpenDraw == <<-4>>

\* The wallet entry of Client::issue_request, from the leaves on: tree,
\* root, commitment, no signature, no coins.
EntryOf(key, leaves, open) ==
    LET smt == new_sequential(leaves, HEIGHT12)
        rt == root(smt)
    IN  [key |-> key, leaves |-> leaves, smt |-> smt, root |-> rt,
         com |-> hash_two(rt, open), open |-> open,
         sig |-> None, coins |-> <<>>]

\* Client::issue_request, the entry of a master key: the leaves are the
\* residues of the GGM leaves of the key.
NewEntry(key, open) ==
    LET leaves_bytes == GGM_expand(key, HEIGHT12)
        leaves == [k \in 1..Len(leaves_bytes) |->
                      from_le_bytes_mod_order(leaves_bytes[k])]
    IN  EntryOf(key, leaves, open)

\* The wallets of the environment.  "A" is built as issue_request builds
\* it, from the master key <<1>>.  "B" commits to leaves of its holder's
\* choosing: leaf j is the first leaf of the GGM tree of depth HEIGHT12
\* of a key <<10 + j>> of its own.
Wallets == {"A", "B"}
EnvWallet ==
    [w \in Wallets |->
        IF w = "A" THEN NewEntry(<<1>>, OpenDraw)
        ELSE EntryOf(<<0>>,
                     [j \in 1..Pow2(HEIGHT12) |->
                         from_le_bytes_mod_order(GGM_expand(<<10 + j>>, HEIGHT12)[1])],
                     OpenDraw)]

\* A spend proof for leaf idx (0-based) of a wallet, made with
\* groth_pks[HEIGHT12] from what the holder has: the signature, if any.
LeafProof(w, idx) ==
    LET e == EnvWallet[w]
        wit == [sig |-> signed[w], root |-> e.root, com |-> e.com, open |-> e.open,
                path |-> generate_membership_proof(e.smt, idx, HEIGHT12)]
    IN  prove(HEIGHT12, pk, wit, e.leaves[idx + 1])

Coin(denom, key, instance, proof) ==
    [denom |-> denom, key |-> key,
     instance_bytes |-> Serialize(instance), proof_bytes |-> Serialize(proof)]

\* The coin of the subtree of wallet "A" with the label of i on len bits:
\* the GGM subkey of the node, the depth that remains below it, its first
\* leaf as instance and the proof of that leaf.
SubtreeCoin(len, i) ==
    LET idx == i * Pow2(HEIGHT12 - len)
    IN  Coin(HEIGHT12 - len,
             GGM_eval(EnvWallet["A"].key, u16_to_bv(i, len)),
             EnvWallet["A"].leaves[idx + 1],
             LeafProof("A", idx))

\* A leaf coin of "A" that carries the proof of another leaf.
WrongProofCoin(i) ==
    Coin(0, GGM_eval(EnvWallet["A"].key, u16_to_bv(i, HEIGHT12)),
         EnvWallet["A"].leaves[i + 1],
         LeafProof("A", (i + 1) % Pow2(HEIGHT12)))

\* The coin of leaf 0 of "A" with denom = HEIGHT12.
DeepLeafCoin ==
    Coin(HEIGHT12, GGM_eval(EnvWallet["A"].key, u16_to_bv(0, HEIGHT12)),
         EnvWallet["A"].leaves[1], LeafProof("A", 0))

\* The coin of leaf 0 of "A", its key in the other encoding of the residue.
AliasCoin ==
    Coin(0, NonCanonical(GGM_eval(EnvWallet["A"].key, u16_to_bv(0, HEIGHT12))),
         EnvWallet["A"].leaves[1], LeafProof("A", 0))

\* The coin of leaf j (0-based) of "B": the key the leaf was derived from,
\* denom = HEIGHT12.
ForeignCoin(j) ==
    Coin(HEIGHT12, <<10 + j + 1>>, EnvWallet["B"].leaves[j + 1], LeafProof("B", j))

Coins ==
    UNION {{SubtreeCoin(len, i) : i \in 0..(Pow2(len) - 1)} : len \in 0..HEIGHT12}
    \cup {WrongProofCoin(0), DeepLeafCoin, AliasCoin}
    \cup {ForeignCoin(j) : j \in 0..1}

\* The redeem requests of the environment: 1 to MaxCoins coins.
Requests ==
    UNION {[1..n -> Coins] : n \in 1..MaxCoins}

(* ------------------------ properties' vocabulary ----------------------- *)

\* The materialized leaves of a coin and of a request, as field elements.
CoinLeaves(coin) ==
    LET leaves_bytes == GGM_expand(coin.key, coin.denom)
    IN  {from_le_bytes_mod_order(leaves_bytes[k]) : k \in 1..Len(leaves_bytes)}
LeafSet(req) == UNION {CoinLeaves(req.coins[i]) : i \in 1..Len(req.coins)}

\* The value of a coin: bit i of a spent value is paid with the coin of
\* denom i.
CoinValue(coin) == Pow2(coin.denom)

\* The wallet a coin is spent from: the one its instance is a leaf of.
CoinsOf(w, req) ==
    {i \in 1..Len(req.coins) :
        \E k \in 1..Len(EnvWallet[w].leaves) :
            EnvWallet[w].leaves[k] = Deserialize(req.coins[i].instance_bytes).val}

RECURSIVE SumValues(_, _)
SumValues(req, idxs) ==
    IF idxs = {} THEN 0
    ELSE LET i == CHOOSE k \in idxs : TRUE
         IN  CoinValue(req.coins[i]) + SumValues(req, idxs \ {i})

NoCall ==
    [called |-> FALSE, req |-> [coins |-> <<>>], before |-> {}, result |-> "",
     why |-> "", vks |-> <<>>, expanded |-> 0]

(* ------------------------------- actions -------------------------------- *)

vars == <<testRng, sk, hset, height, signed, last, acceptedSets, spent, nRedeems,
          borrowers, frames, creq,
          wallet, reqs, rsps, panicked, lastProc, trips, emitted,
          mN, mLeaves, mTree, mProof, mChecked, mIndex,
          gKey, gDepth, gLeaves, gEval, gBlocks, gF, gSub, sMsg, sSig, sVer,
          sapVars>>

\* The callers of redeem, and a caller that has not called.
Workers == 1..MaxWorkers
IdleFrame == [StartFrame EXCEPT !.pc = "idle"]

\* No caller of the concurrent specification.
IdleConc ==
    /\ borrowers = {}
    /\ frames = [w \in Workers |-> IdleFrame]
    /\ creq = [coins |-> <<>>]

\* The signature a wallet gets from Server::issue on its commitment.
Issued(w) ==
    LET rsp == issue([com |-> Serialize(EnvWallet[w].com)])
    IN  Some([prover_response |-> Deserialize(rsp.sig.prover_response).val,
              verifier_challenge |-> rsp.sig.verifier_challenge])

\* A client that has done nothing.
NoProc == [called |-> FALSE, decoded |-> FALSE, verified |-> FALSE,
           before |-> <<>>, after |-> <<>>]
IdleClient ==
    /\ wallet = <<>>
    /\ reqs = {}
    /\ rsps = {}
    /\ panicked = FALSE
    /\ lastProc = NoProc
    /\ trips = {}
    /\ emitted = <<>>

\* No tree.
NoTree == [built |-> FALSE, tree |-> <<>>]
NoProof == [ok |-> FALSE, index |-> 0, path |-> <<>>]
NoCheck == [called |-> FALSE, j |-> 0, res |-> [ok |-> FALSE, err |-> "", val |-> FALSE]]
NoIndex == [called |-> FALSE, j |-> 0, res |-> [ok |-> FALSE, err |-> "", val |-> 0]]
IdleMerkle ==
    /\ mN = 1
    /\ mLeaves = <<>>
    /\ mTree = NoTree
    /\ mProof = NoProof
    /\ mChecked = NoCheck
    /\ mIndex = NoIndex

\* No call of the pure functions.
NoEval == [called |-> FALSE, i |-> 0, out |-> <<>>]
NoF == [called |-> FALSE, bit |-> FALSE, out |-> <<>>]
NoSub == [called |-> FALSE, j |-> 0, i |-> 0, out |-> <<>>]
NoVer == [called |-> FALSE, msg |-> <<>>, res |-> FALSE]
IdleGGM ==
    /\ gKey = <<>>
    /\ gDepth = 0
    /\ gLeaves = <<>>
    /\ gEval = NoEval
    /\ gBlocks = <<>>
    /\ gF = NoF
    /\ gSub = NoSub
IdleSchnorr ==
    /\ sMsg = <<>>
    /\ sSig = None
    /\ sVer = NoVer
IdlePure == IdleGGM /\ IdleSchnorr

\* A sap client and server that have done nothing.
NoSent == [called |-> FALSE, n |-> 0, before |-> 0, blinded |-> <<>>]
NoSapProc == [called |-> FALSE, verified |-> FALSE, panic |-> FALSE,
              tokens |-> 0, unblinded |-> 0]
NoSapCall == [called |-> FALSE, coins |-> <<>>, before |-> {}, accepted |-> {},
              valid |-> FALSE]
NoMsg == [kind |-> "none"]
IdleSAP ==
    /\ tokens = <<>>
    /\ blinded_tokens = <<>>
    /\ unblinded_tokens = <<>>
    /\ bloom = {}
    /\ sapPhase = "idle"
    /\ sapMsg = NoMsg
    /\ sapSent = NoSent
    /\ sapProc = NoSapProc
    /\ sapLast = NoSapCall
    /\ sapAccepted = {}
    /\ sapMade = 0
    /\ nSapRedeems = 0

\* A server that has redeemed nothing.
IdleServer ==
    /\ hset = {}
    /\ signed = [w \in Wallets |-> None]
    /\ last = NoCall
    /\ acceptedSets = <<>>
    /\ spent = [w \in Wallets |-> 0]
    /\ nRedeems = 0

\* Server::new: the key pair from test_rng(), an empty index.
Init ==
    /\ testRng \in 1..(Q - 1)
    /\ sk = testRng
    /\ height = HEIGHT12
    /\ IdleSAP
    /\ hset = {}
    /\ signed = [w \in Wallets |-> None]
    /\ last = NoCall
    /\ acceptedSets = <<>>
    /\ spent = [w \in Wallets |-> 0]
    /\ nRedeems = 0
    /\ IdleConc
    /\ IdleClient
    /\ IdlePure
    /\ IdleMerkle

\* The holder of a wallet sends its commitment; Server::issue signs it.
EnvIssue(w) ==
    /\ ~signed[w].ok
    /\ issue([com |-> Serialize(EnvWallet[w].com)]).ok
    /\ signed' = [signed EXCEPT ![w] = Issued(w)]
    /\ UNCHANGED <<sapVars, pureVars, serverVars, last, acceptedSets, spent, nRedeems, concVars,
                   clientVars, merkleVars>>

\* Server::redeem on a request of the environment, start to return.
Redeem(req) ==
    /\ LET r == redeem(hset, req)
       IN  /\ hset' = r.h
           /\ last' = [called |-> TRUE, req |-> req, before |-> hset,
                       result |-> r.f.result, why |-> r.f.why, vks |-> r.f.vks,
                       expanded |-> r.f.expanded]
           /\ acceptedSets' = IF r.f.result = "true"
                              THEN Append(acceptedSets, LeafSet(req))
                              ELSE acceptedSets
           /\ spent' = [w \in Wallets |->
                          IF r.f.result = "true"
                          THEN spent[w] + SumValues(req, CoinsOf(w, req))
                          ELSE spent[w]]
    /\ nRedeems' = nRedeems + 1
    /\ UNCHANGED <<sapVars, pureVars, testRng, sk, height, signed, concVars, clientVars, merkleVars>>

\* Any request of the environment, while the bound on calls allows.
RedeemAny ==
    /\ nRedeems < MaxRedeems
    /\ \E coins \in Requests : Redeem([coins |-> coins])

Next ==
    \/ \E w \in Wallets : EnvIssue(w)
    \/ RedeemAny

Spec == Init /\ [][Next]_vars

(* ----------------------- redeem, several callers ----------------------- *)

\* Fault: a server handed out to several callers at once.
SharedBorrow(holders) == TRUE

\* redeem(&mut self, ..): a caller gets the server only while no other
\* caller holds it.
Exclusive(holders) == holders = {}

\* The single-leaf coins the callers may submit.
LeafCoins == {SubtreeCoin(HEIGHT12, i) : i \in 0..(Pow2(HEIGHT12) - 1)} \cup {AliasCoin}

\* A server after issuing to wallet "A"; the callers hold one valid
\* single-leaf coin of it.
InitConc ==
    /\ testRng \in 1..(Q - 1)
    /\ sk = testRng
    /\ height = HEIGHT12
    /\ IdleSAP
    /\ hset = {}
    /\ signed = [w \in Wallets |-> IF w = "A" THEN Issued(w) ELSE None]
    /\ last = NoCall
    /\ acceptedSets = <<>>
    /\ spent = [w \in Wallets |-> 0]
    /\ nRedeems = 0
    /\ borrowers = {}
    /\ frames = [w \in Workers |-> IdleFrame]
    /\ creq \in {[coins |-> <<c>>] : c \in LeafCoins}
    /\ IdleClient
    /\ IdlePure
    /\ IdleMerkle

\* A caller enters Server::redeem with the request.
ConcCall(w) ==
    /\ frames[w].pc = "idle"
    /\ Exclusive(borrowers)
    /\ borrowers' = borrowers \cup {w}
    /\ frames' = [frames EXCEPT ![w] = StartFrame]
    /\ UNCHANGED <<sapVars, pureVars, serverVars, redeemVars, creq, clientVars, merkleVars>>

\* A caller inside Server::redeem takes its next step.
ConcStep(w) ==
    /\ frames[w].pc \in {"coin", "check", "insert", "verify"}
    /\ LET n == RedeemStep(frames[w], hset, creq)
       IN  /\ frames' = [frames EXCEPT ![w] = n.f]
           /\ hset' = n.h
    /\ UNCHANGED <<sapVars, pureVars, testRng, sk, height, redeemVars, borrowers, creq, clientVars, merkleVars>>

\* Server::redeem returns and the borrow ends.
ConcReturn(w) ==
    /\ frames[w].pc = "done"
    /\ frames' = [frames EXCEPT ![w].pc = "returned"]
    /\ borrowers' = borrowers \ {w}
    /\ UNCHANGED <<sapVars, pureVars, serverVars, redeemVars, creq, clientVars, merkleVars>>

NextConc ==
    \/ \E w \in Workers : ConcCall(w)
    \/ \E w \in Workers : ConcStep(w)
    \/ \E w \in Workers : ConcReturn(w)

SpecConc == InitConc /\ [][NextConc]_vars

(* -------------------------------- client ------------------------------- *)

\* The master keys rand::thread_rng() may yield.
Keys == {<<1>>, <<5>>}

\* Client::issue_request with the master key drawn: the entry is pushed,
\* the request carries the commitment.
issue_request(wal, key) ==
    LET entry == NewEntry(key, OpenDraw)
    IN  [wallet |-> Append(wal, entry), req |-> [com |-> Serialize(entry.com)]]

\* The signature of an issue response, deserialized.
SigOf(rsp) ==
    [prover_response |-> Deserialize(rsp.sig.prover_response).val,
     verifier_challenge |-> rsp.sig.verifier_challenge]

\* Fault: issue_process without its assert!.
issue_process_unchecked(wal, rsp) ==
    IF wal = <<>> THEN [panic |-> TRUE, why |-> "index", wallet |-> wal]
    ELSE IF ~Deserialize(rsp.sig.prover_response).ok
    THEN [panic |-> TRUE, why |-> "deserialize", wallet |-> wal]
    ELSE [panic |-> FALSE, why |-> "",
          wallet |-> [wal EXCEPT ![1].sig = Some(SigOf(rsp))]]

\* Client::issue_process: the entry is wallet[0]; the unwrap of the
\* deserialization and the assert! on the verification panic.
issue_process(wal, rsp) ==
    IF wal = <<>> THEN [panic |-> TRUE, why |-> "index", wallet |-> wal]
    ELSE IF ~Deserialize(rsp.sig.prover_response).ok
    THEN [panic |-> TRUE, why |-> "deserialize", wallet |-> wal]
    ELSE IF ~verify(pk, wal[1].com, SigOf(rsp))
    THEN [panic |-> TRUE, why |-> "assert", wallet |-> wal]
    ELSE [panic |-> FALSE, why |-> "",
          wallet |-> [wal EXCEPT ![1].sig = Some(SigOf(rsp))]]

\* Client::precompute_proofs: the entry is wallet[0]; the proof is made for
\* leaf 0 with the entry's signature unwrapped; the coin pushed carries
\* denom 0 and the master key of the entry.
precompute_proofs(wal) ==
    IF wal = <<>> THEN [panic |-> TRUE, why |-> "index", wallet |-> wal]
    ELSE IF ~wal[1].sig.ok
    THEN [panic |-> TRUE, why |-> "unwrap", wallet |-> wal]
    ELSE IF height + 1 > Len(groth_pks)
    THEN [panic |-> TRUE, why |-> "index", wallet |-> wal]
    ELSE LET entry == wal[1]
             wit == [sig |-> entry.sig, root |-> entry.root, com |-> entry.com,
                     open |-> entry.open,
                     path |-> generate_membership_proof(entry.smt, 0, HEIGHT12)]
             proof == prove(groth_pks[height + 1], pk, wit, entry.leaves[1])
             coin == Coin(0, entry.key, entry.leaves[1], proof)
         IN  [panic |-> FALSE, why |-> "",
              wallet |-> [wal EXCEPT ![1].coins = Append(@, coin)]]

\* Client::redeem_request(_n): a clone of the first coin of wallet[0],
\* whatever the value asked.
redeem_request(wal, n) ==
    IF wal = <<>> \/ wal[1].coins = <<>>
    THEN [panic |-> TRUE, why |-> "index", req |-> [coins |-> <<>>]]
    ELSE [panic |-> FALSE, why |-> "", req |-> [coins |-> <<wal[1].coins[1]>>]]

\* The values a redeem request may be asked for.
Values == 1..(Pow2(HEIGHT12) - 1)

\* What the network may turn the signature of a response into: another
\* prover response, or bytes that do not deserialize.
Tampered(sig) ==
    {[sig EXCEPT !.prover_response =
         Serialize((Deserialize(sig.prover_response).val + 1) % Q)],
     [sig EXCEPT !.prover_response =
         Malformed(Deserialize(sig.prover_response).val)]}

\* Server::new and Client::new.
InitClient ==
    /\ testRng \in 1..(Q - 1)
    /\ sk = testRng
    /\ height = HEIGHT12
    /\ IdleSAP
    /\ IdleServer
    /\ IdleConc
    /\ IdleClient
    /\ IdlePure
    /\ IdleMerkle

\* Client::issue_request; the request leaves for the server.  k is the
\* position of the entry the request was made for.
ClientIssueRequest(key) ==
    /\ ~panicked
    /\ Len(wallet) < MaxWallet
    /\ LET out == issue_request(wallet, key)
       IN  /\ wallet' = out.wallet
           /\ reqs' = reqs \cup {[k |-> Len(out.wallet), req |-> out.req]}
    /\ UNCHANGED <<sapVars, pureVars, serverVars, redeemVars, concVars, merkleVars,
                   rsps, panicked, lastProc, trips, emitted>>

\* Server::issue on a request; the response leaves for the client.
ServerIssue(m) ==
    /\ m \in reqs
    /\ issue(m.req).ok
    /\ reqs' = reqs \ {m}
    /\ rsps' = rsps \cup {[k |-> m.k, honest |-> TRUE, sig |-> issue(m.req).sig]}
    /\ UNCHANGED <<sapVars, pureVars, serverVars, redeemVars, concVars, merkleVars,
                   wallet, panicked, lastProc, trips, emitted>>

\* The network replaces the signature of a response.
Tamper(m) ==
    /\ m \in rsps
    /\ m.honest
    /\ \E sig \in Tampered(m.sig) :
          rsps' = (rsps \ {m}) \cup {[k |-> m.k, honest |-> FALSE, sig |-> sig]}
    /\ UNCHANGED <<sapVars, pureVars, serverVars, redeemVars, concVars, merkleVars,
                   wallet, reqs, panicked, lastProc, trips, emitted>>

\* Client::issue_process on a response.
ClientIssueProcess(m) ==
    /\ ~panicked
    /\ m \in rsps
    /\ LET out == issue_process(wallet, [sig |-> m.sig])
       IN  /\ wallet' = out.wallet
           /\ panicked' = out.panic
           /\ trips' = IF m.honest
                       THEN trips \cup {[k |-> m.k, ok |-> ~out.panic,
                                          direct |-> /\ m.k = Len(wallet)
                                                     /\ reqs = {}
                                                     /\ rsps = {m}]}
                       ELSE trips
    /\ lastProc' = [called |-> TRUE,
                    decoded |-> Deserialize(m.sig.prover_response).ok,
                    verified |-> /\ wallet # <<>>
                                 /\ Deserialize(m.sig.prover_response).ok
                                 /\ verify(pk, wallet[1].com, SigOf(m)),
                    before |-> wallet,
                    after |-> issue_process(wallet, [sig |-> m.sig]).wallet]
    /\ rsps' = rsps \ {m}
    /\ UNCHANGED <<sapVars, pureVars, serverVars, redeemVars, concVars, merkleVars, reqs,
                   emitted>>

\* Client::precompute_proofs.
ClientPrecompute ==
    /\ ~panicked
    /\ wallet # <<>> => Len(wallet[1].coins) < MaxPrecompute
    /\ LET out == precompute_proofs(wallet)
       IN  /\ wallet' = out.wallet
           /\ panicked' = out.panic
    /\ UNCHANGED <<sapVars, pureVars, serverVars, redeemVars, concVars, merkleVars,
                   reqs, rsps, lastProc, trips, emitted>>

\* Client::redeem_request for the value n; the request is recorded.
ClientRedeemRequest(n) ==
    /\ ~panicked
    /\ Len(emitted) < MaxEmit
    /\ LET out == redeem_request(wallet, n)
       IN  /\ panicked' = out.panic
           /\ emitted' = IF out.panic THEN emitted
                         ELSE Append(emitted, [n |-> n, coins |-> out.req.coins])
    /\ UNCHANGED <<sapVars, pureVars, serverVars, redeemVars, concVars, merkleVars,
                   wallet, reqs, rsps, lastProc, trips>>

NextClient ==
    \/ \E key \in Keys : ClientIssueRequest(key)
    \/ \E m \in reqs : ServerIssue(m)
    \/ \E m \in rsps : Tamper(m)
    \/ \E m \in rsps : ClientIssueProcess(m)
    \/ ClientPrecompute
    \/ \E n \in Values : ClientRedeemRequest(n)

SpecClient == InitClient /\ [][NextClient]_vars

(* ------------------------------ Merkle tree ---------------------------- *)

\* The field elements the leaves of a batch are drawn from.
Elems == {<<1>>, <<2>>, <<3>>}

\* The full batches of leaves of the trees of height 1..MerkleN.
InitMerkle ==
    /\ testRng = 1
    /\ sk = testRng
    /\ height = HEIGHT12
    /\ IdleSAP
    /\ IdleServer
    /\ IdleConc
    /\ IdleClient
    /\ IdlePure
    /\ mN \in 1..MerkleN
    /\ mLeaves \in [1..Pow2(mN) -> Elems]
    /\ mTree = NoTree
    /\ mProof = NoProof
    /\ mChecked = NoCheck
    /\ mIndex = NoIndex

\* SparseMerkleTree::new_sequential on the batch.
MerkleBuild ==
    /\ ~mTree.built
    /\ mTree' = [built |-> TRUE, tree |-> new_sequential(mLeaves, mN)]
    /\ UNCHANGED <<sapVars, pureVars, serverVars, redeemVars, concVars, clientVars,
                   mN, mLeaves, mProof, mChecked, mIndex>>

\* SparseMerkleTree::generate_membership_proof(index)
MerkleProve(index) ==
    /\ mTree.built
    /\ mProof' = [ok |-> TRUE, index |-> index,
                  path |-> generate_membership_proof(mTree.tree, index, mN)]
    /\ mChecked' = NoCheck
    /\ mIndex' = NoIndex
    /\ UNCHANGED <<sapVars, pureVars, serverVars, redeemVars, concVars, clientVars,
                   mN, mLeaves, mTree>>

\* Path::check_membership of leaf j against the root, on the last proof.
MerkleCheck(j) ==
    /\ mProof.ok
    /\ mChecked' = [called |-> TRUE, j |-> j,
                    res |-> check_membership(mProof.path, root(mTree.tree),
                                             mLeaves[j + 1])]
    /\ UNCHANGED <<sapVars, pureVars, serverVars, redeemVars, concVars, clientVars,
                   mN, mLeaves, mTree, mProof, mIndex>>

\* Path::get_index of leaf j against the root, on the last proof.
MerkleGetIndex(j) ==
    /\ mProof.ok
    /\ mIndex' = [called |-> TRUE, j |-> j,
                  res |-> get_index(mProof.path, root(mTree.tree), mLeaves[j + 1])]
    /\ UNCHANGED <<sapVars, pureVars, serverVars, redeemVars, concVars, clientVars,
                   mN, mLeaves, mTree, mProof, mChecked>>

NextMerkle ==
    \/ MerkleBuild
    \/ \E index \in 0..(Pow2(mN) - 1) : MerkleProve(index)
    \/ \E j \in 0..(Pow2(mN) - 1) : MerkleCheck(j)
    \/ \E j \in 0..(Pow2(mN) - 1) : MerkleGetIndex(j)

SpecMerkle == InitMerkle /\ [][NextMerkle]_vars

(* ------------------------------ GGM, PRG ------------------------------- *)

\* The keys of the GGM specification: seeds and inner nodes.
GKeys == {<<1>>, <<5>>, <<1, 0>>, <<1, 1>>}

InitGGM ==
    /\ testRng = 1
    /\ sk = testRng
    /\ height = HEIGHT12
    /\ IdleSAP
    /\ IdleServer
    /\ IdleConc
    /\ IdleClient
    /\ IdleMerkle
    /\ IdleSchnorr
    /\ gKey \in GKeys
    /\ gDepth \in 0..MaxDepth
    /\ gLeaves = <<>>
    /\ gEval = NoEval
    /\ gBlocks = <<>>
    /\ gF = NoF
    /\ gSub = NoSub

\* GGM::expand(key, depth)
GGMExpand ==
    /\ gLeaves' = GGM_expand(gKey, gDepth)
    /\ UNCHANGED <<sapVars, serverVars, redeemVars, concVars, clientVars, merkleVars,
                   schnorrVars, gKey, gDepth, gEval, gBlocks, gF, gSub>>

\* GGM::eval(key, u16_to_bv(i, depth))
GGMEval(i) ==
    /\ gEval' = [called |-> TRUE, i |-> i,
                 out |-> GGM_eval(gKey, u16_to_bv(i, gDepth))]
    /\ UNCHANGED <<sapVars, serverVars, redeemVars, concVars, clientVars, merkleVars,
                   schnorrVars, gKey, gDepth, gLeaves, gBlocks, gF, gSub>>

\* PRG::eval(key, out_blocks)
PRGEval ==
    /\ gBlocks' = PRG_eval(gKey)
    /\ UNCHANGED <<sapVars, serverVars, redeemVars, concVars, clientVars, merkleVars,
                   schnorrVars, gKey, gDepth, gLeaves, gEval, gF, gSub>>

\* PRG::evalf(bit, key) on a copy of the key.
PRGEvalf(bit) ==
    /\ gF' = [called |-> TRUE, bit |-> bit, out |-> PRG_evalf(bit, gKey)]
    /\ UNCHANGED <<sapVars, serverVars, redeemVars, concVars, clientVars, merkleVars,
                   schnorrVars, gKey, gDepth, gLeaves, gEval, gBlocks, gSub>>

\* The delegation of the node i of level j: GGM::eval on the j-bit label
\* of i, then GGM::expand of the subkey over the depth that remains.
GGMDelegate(j, i) ==
    /\ gSub' = [called |-> TRUE, j |-> j, i |-> i,
                out |-> GGM_expand(GGM_eval(gKey, u16_to_bv(i, j)), gDepth - j)]
    /\ UNCHANGED <<sapVars, serverVars, redeemVars, concVars, clientVars, merkleVars,
                   schnorrVars, gKey, gDepth, gLeaves, gEval, gBlocks, gF>>

NextGGM ==
    \/ GGMExpand
    \/ \E i \in 0..(Pow2(gDepth) - 1) : GGMEval(i)
    \/ \E j \in 0..gDepth : \E i \in 0..(Pow2(j) - 1) : GGMDelegate(j, i)
    \/ PRGEval
    \/ \E bit \in BOOLEAN : PRGEvalf(bit)

SpecGGM == InitGGM /\ [][NextGGM]_vars

(* ------------------------------- Schnorr ------------------------------- *)

\* A key pair of keygen, a message, the random scalar of sign.
InitSchnorr ==
    /\ testRng \in Scalars
    /\ sk \in Scalars
    /\ height = HEIGHT12
    /\ IdleSAP
    /\ IdleServer
    /\ IdleConc
    /\ IdleClient
    /\ IdleMerkle
    /\ IdleGGM
    /\ sMsg \in Elems
    /\ sSig = None
    /\ sVer = NoVer

\* Schnorr::sign(sk, m, rng)
SchnorrSign ==
    /\ ~sSig.ok
    /\ sSig' = Some(sign(sk, sMsg, testRng))
    /\ UNCHANGED <<sapVars, serverVars, redeemVars, concVars, clientVars, merkleVars,
                   ggmVars, sMsg, sVer>>

\* Schnorr::verify(pk, m, sig) on the signature made, for any message.
SchnorrVerify(m) ==
    /\ sSig.ok
    /\ sVer' = [called |-> TRUE, msg |-> m, res |-> verify(pk, m, sSig.val)]
    /\ UNCHANGED <<sapVars, serverVars, redeemVars, concVars, clientVars, merkleVars,
                   ggmVars, sMsg, sSig>>

NextSchnorr ==
    \/ SchnorrSign
    \/ \E m \in Elems : SchnorrVerify(m)

SpecSchnorr == InitSchnorr /\ [][NextSchnorr]_vars

(* ----------------------- redeem, hostile requests ---------------------- *)

\* The coin of leaf 0 of "A" with the instance of leaf 1 in its place.
SwappedInstanceCoin ==
    [SubtreeCoin(HEIGHT12, 0) EXCEPT
        !.instance_bytes = Serialize(EnvWallet["A"].leaves[2])]

\* The coin of leaf 0 of "A" with instance bytes, or proof bytes, that do
\* not deserialize.
BadInstanceBytesCoin ==
    [SubtreeCoin(HEIGHT12, 0) EXCEPT
        !.instance_bytes = Malformed(EnvWallet["A"].leaves[1])]
BadProofBytesCoin ==
    [SubtreeCoin(HEIGHT12, 0) EXCEPT
        !.proof_bytes = Malformed(Deserialize(SubtreeCoin(HEIGHT12, 0).proof_bytes).val)]

\* A coin of denom HEIGHT12 + 1 on the key of leaf 0 of "A": its instance is
\* the first block of the expansion of that key over denom levels.
OverDeepCoin ==
    LET key == GGM_eval(EnvWallet["A"].key, u16_to_bv(0, HEIGHT12))
    IN  Coin(HEIGHT12 + 1, key,
             from_le_bytes_mod_order(GGM_expand(key, HEIGHT12 + 1)[1]),
             LeafProof("A", 0))

\* Genuine leaf coins of "A" and coins that are wrong in one respect each.
AdvCoins ==
    {SubtreeCoin(HEIGHT12, 0), SubtreeCoin(HEIGHT12, 1), WrongProofCoin(0),
     DeepLeafCoin, SwappedInstanceCoin, BadInstanceBytesCoin, BadProofBytesCoin,
     OverDeepCoin}

AdvRequests ==
    UNION {[1..n -> AdvCoins] : n \in 1..MaxCoins}

\* Server::new, and wallet "A" issued.
InitAdv ==
    /\ testRng \in 1..(Q - 1)
    /\ sk = testRng
    /\ height = HEIGHT12
    /\ IdleSAP
    /\ hset = {}
    /\ signed = [w \in Wallets |-> IF w = "A" THEN Issued(w) ELSE None]
    /\ last = NoCall
    /\ acceptedSets = <<>>
    /\ spent = [w \in Wallets |-> 0]
    /\ nRedeems = 0
    /\ IdleConc
    /\ IdleClient
    /\ IdlePure
    /\ IdleMerkle

\* Server::redeem on any of the hostile requests.
RedeemAdv ==
    /\ nRedeems < MaxRedeems
    /\ \E coins \in AdvRequests : Redeem([coins |-> coins])

NextAdv == RedeemAdv

\* Server::new of any of the generated variants, $height from 0 to
\* HEIGHT12, and wallet "A" issued.
InitVariant ==
    /\ testRng \in 1..(Q - 1)
    /\ sk = testRng
    /\ height \in 0..HEIGHT12
    /\ IdleSAP
    /\ hset = {}
    /\ signed = [w \in Wallets |-> IF w = "A" THEN Issued(w) ELSE None]
    /\ last = NoCall
    /\ acceptedSets = <<>>
    /\ spent = [w \in Wallets |-> 0]
    /\ nRedeems = 0
    /\ IdleConc
    /\ IdleClient
    /\ IdlePure
    /\ IdleMerkle

SpecVariant == InitVariant /\ [][NextAdv]_vars

SpecAdv == InitAdv /\ [][NextAdv]_vars

(* --------------------------------- sap ---------------------------------- *)

\* The VOPRF of challenge_bypass_ristretto, symbolically.  A point is
\* H(t)^(r*k): the preimage t it was hashed from, the blinding factor r on
\* it ("" once removed) and the signing key k on it ("" before signing).

\* The server's signing key, and a key that is not the server's.
signing_key == "k"
OtherKey == "j"

\* Token::random, the x-th draw: a preimage and a blinding factor.
Token(x) == [t |-> <<"t", x>>, r |-> <<"r", x>>]

\* Token::blind
blind(token) == [t |-> token.t, r |-> token.r, k |-> ""]

\* SigningKey::sign on a blinded token.
SigningKey_sign(key, blinded) == [blinded EXCEPT !.k = key]

\* SigningKey.public_key
public_key(key) == <<"pub", key>>

\* Token::unblind of a signed token: the blinding factor of the token is
\* taken off the point.
unblind(token, signedTok) ==
    [t |-> token.t,
     W |-> IF signedTok.r = token.r THEN [signedTok EXCEPT !.r = ""]
           ELSE signedTok]

\* SigningKey::rederive_unblinded_token
rederive_unblinded_token(key, t) ==
    [t |-> t, W |-> [t |-> t, r |-> "", k |-> key]]

\* BatchDLEQProof::new over the blinded and the signed tokens: an error on
\* lists of different lengths, else a proof of these lists under the key.
BatchDLEQProof_new(blinded, signedToks, key) ==
    IF Len(blinded) # Len(signedToks) THEN [ok |-> FALSE]
    ELSE [ok |-> TRUE, blinded |-> blinded, signed |-> signedToks,
          pub |-> public_key(key),
          sound |-> \A i \in 1..Len(blinded) :
                        signedToks[i] = SigningKey_sign(key, blinded[i])]

\* BatchDLEQProof::verify_and_unblind
verify_and_unblind(proof, toks, blinded, signedToks, pub) ==
    IF Len(toks) # Len(blinded) \/ Len(toks) # Len(signedToks)
    THEN [ok |-> FALSE, err |-> "LengthMismatch", val |-> <<>>]
    ELSE IF ~(/\ proof.sound
              /\ proof.blinded = blinded
              /\ proof.signed = signedToks
              /\ proof.pub = pub)
    THEN [ok |-> FALSE, err |-> "VerifyError", val |-> <<>>]
    ELSE [ok |-> TRUE, err |-> "",
          val |-> [i \in 1..Len(toks) |-> unblind(toks[i], signedToks[i])]]

\* sap Client::issue_request(n), the tokens being draws made + 1 .. made + n:
\* the new tokens are pushed, the request carries a clone of the whole
\* blinded_tokens vector.
sap_issue_request(toks, blinded, n, made) ==
    LET fresh == [i \in 1..n |-> Token(made + i)]
        blinded2 == blinded \o [i \in 1..n |-> blind(fresh[i])]
    IN  [tokens |-> toks \o fresh, blinded_tokens |-> blinded2,
         req |-> [blinded_tokens |-> blinded2]]

\* sap Server::issue: every blinded token of the request is signed, the
\* batch proof is made over both lists (and unwrapped).
sap_issue(key, req) ==
    LET signed_tokens == [i \in 1..Len(req.blinded_tokens) |->
                             SigningKey_sign(key, req.blinded_tokens[i])]
        batch_proof == BatchDLEQProof_new(req.blinded_tokens, signed_tokens, key)
    IN  [panic |-> ~batch_proof.ok,
         rsp |-> [signed_tokens |-> signed_tokens, public_key |-> public_key(key),
                  batch_proof |-> batch_proof]]

\* sap Client::issue_process: the result of verify_and_unblind on all of
\* tokens and blinded_tokens is appended to unblinded_tokens, an error
\* returned before anything is appended; then the assert_eq! on the lengths.
sap_issue_process(toks, blinded, unblinded, resp) ==
    LET r == verify_and_unblind(resp.batch_proof, toks, blinded,
                                resp.signed_tokens, resp.public_key)
        unblinded2 == IF r.ok THEN unblinded \o r.val ELSE unblinded
    IN  [ok |-> r.ok,
         panic |-> r.ok /\ Len(toks) # Len(unblinded2),
         unblinded_tokens |-> unblinded2]

\* sap Client::redeem_request: a clone of every unblinded token.
sap_redeem_request(unblinded) == [coins |-> unblinded]

\* Bloom::check_and_set: whether the item was present, and the filter with
\* the item set.
check_and_set(filter, t) == [was |-> t \in filter, bloom |-> filter \cup {t}]

\* sap Server::redeem, the loop over the coins from coin i on.
RECURSIVE SapRedeemLoop(_, _, _, _)
SapRedeemLoop(filter, key, coins, i) ==
    IF i > Len(coins) THEN [valid |-> TRUE, bloom |-> filter]
    ELSE LET c == check_and_set(filter, coins[i].t)
         IN  IF c.was THEN [valid |-> FALSE, bloom |-> c.bloom]
             ELSE IF rederive_unblinded_token(key, coins[i].t).W # coins[i].W
             THEN [valid |-> FALSE, bloom |-> c.bloom]
             ELSE SapRedeemLoop(c.bloom, key, coins, i + 1)

\* sap Server::redeem
sap_redeem(filter, key, coins) == SapRedeemLoop(filter, key, coins, 1)

\* The coins a redeem request may carry: the unblinded tokens the client
\* holds, and for each the coin of the same preimage with a W made under
\* another key.
Forged(coin) == [t |-> coin.t, W |-> [coin.W EXCEPT !.k = OtherKey]]
SapCoins ==
    LET held == {unblinded_tokens[i] : i \in 1..Len(unblinded_tokens)}
    IN  held \cup {Forged(c) : c \in held}
SapRequests ==
    UNION {[1..n -> SapCoins] : n \in 1..MaxCoins}

\* A sap client and a sap server, as the benches construct them.
InitSAP ==
    /\ testRng = 1
    /\ sk = testRng
    /\ height = HEIGHT12
    /\ IdleServer
    /\ IdleConc
    /\ IdleClient
    /\ IdlePure
    /\ IdleMerkle
    /\ IdleSAP

\* sap Client::issue_request(n); the request leaves for the server.
SapIssueRequest(n) ==
    /\ sapPhase = "idle"
    /\ sapMade + n <= MaxTokens
    /\ LET out == sap_issue_request(tokens, blinded_tokens, n, sapMade)
       IN  /\ tokens' = out.tokens
           /\ blinded_tokens' = out.blinded_tokens
           /\ sapMsg' = [kind |-> "req", req |-> out.req]
           /\ sapSent' = [called |-> TRUE, n |-> n, before |-> Len(tokens),
                          blinded |-> out.req.blinded_tokens]
    /\ sapMade' = sapMade + n
    /\ sapPhase' = "requested"
    /\ UNCHANGED <<serverVars, redeemVars, concVars, clientVars, merkleVars,
                   pureVars, unblinded_tokens, bloom, sapProc, sapLast,
                   sapAccepted, nSapRedeems>>

\* sap Server::issue on the request; the response leaves for the client.
SapServerIssue ==
    /\ sapPhase = "requested"
    /\ LET out == sap_issue(signing_key, sapMsg.req)
       IN  /\ sapMsg' = [kind |-> "rsp", rsp |-> out.rsp]
           /\ sapPhase' = IF out.panic THEN "panicked" ELSE "issued"
    /\ UNCHANGED <<serverVars, redeemVars, concVars, clientVars, merkleVars,
                   pureVars, tokens, blinded_tokens, unblinded_tokens, bloom,
                   sapSent, sapProc, sapLast, sapAccepted, sapMade, nSapRedeems>>

\* sap Client::issue_process on the response.
SapIssueProcess ==
    /\ sapPhase = "issued"
    /\ LET out == sap_issue_process(tokens, blinded_tokens, unblinded_tokens,
                                    sapMsg.rsp)
       IN  /\ unblinded_tokens' = out.unblinded_tokens
           /\ sapProc' = [called |-> TRUE, verified |-> out.ok, panic |-> out.panic,
                          tokens |-> Len(tokens),
                          unblinded |-> Len(out.unblinded_tokens)]
           /\ sapPhase' = IF out.panic THEN "panicked" ELSE "idle"
    /\ sapMsg' = NoMsg
    /\ UNCHANGED <<serverVars, redeemVars, concVars, clientVars, merkleVars,
                   pureVars, tokens, blinded_tokens, bloom, sapSent, sapLast,
                   sapAccepted, sapMade, nSapRedeems>>

\* sap Client::reset_state, between two rounds.
SapResetState ==
    /\ sapPhase = "idle"
    /\ tokens # <<>>
    /\ tokens' = <<>>
    /\ blinded_tokens' = <<>>
    /\ unblinded_tokens' = <<>>
    /\ UNCHANGED <<serverVars, redeemVars, concVars, clientVars, merkleVars,
                   pureVars, bloom, sapPhase, sapMsg, sapSent, sapProc, sapLast,
                   sapAccepted, sapMade, nSapRedeems>>

\* sap Server::redeem on a request.
SapRedeem(coins) ==
    /\ LET out == sap_redeem(bloom, signing_key, coins)
       IN  /\ bloom' = out.bloom
           /\ sapLast' = [called |-> TRUE, coins |-> coins, before |-> bloom,
                          accepted |-> sapAccepted, valid |-> out.valid]
           /\ sapAccepted' = IF out.valid
                             THEN sapAccepted \cup {coins[i].t : i \in 1..Len(coins)}
                             ELSE sapAccepted
    /\ nSapRedeems' = nSapRedeems + 1
    /\ UNCHANGED <<serverVars, redeemVars, concVars, clientVars, merkleVars,
                   pureVars, tokens, blinded_tokens, unblinded_tokens, sapPhase,
                   sapMsg, sapSent, sapProc, sapMade>>

\* Any request over the coins, the client's own redeem_request among them,
\* while the bound on calls allows.
SapRedeemAny ==
    /\ nSapRedeems < MaxSapRedeems
    /\ sapPhase = "idle"
    /\ \E coins \in SapRequests \cup
                     {c \in {sap_redeem_request(unblinded_tokens).coins} : c # <<>>} :
          SapRedeem(coins)

NextSAP ==
    \/ \E n \in 1..MaxBatch : SapIssueRequest(n)
    \/ SapServerIssue
    \/ SapIssueProcess
    \/ SapResetState
    \/ SapRedeemAny

SpecSAP == InitSAP /\ [][NextSAP]_vars

(* ------------------------------ C1 .. C6 ------------------------------- *)

\* The coins of a request, by position.
CoinIdx(req) == 1..Len(req.coins)

\* C1: over the redeem calls on one server, the leaf sets of the bundles
\* that returned valid = true are pairwise disjoint, an accepted bundle has
\* no leaf that was in the index before it and no leaf in two of its coins;
\* so two bundles whose leaf sets intersect are never both accepted.
C1_NoDoubleSpend ==
    /\ \A a, b \in 1..Len(acceptedSets) :
          a < b => acceptedSets[a] \cap acceptedSets[b] = {}
    /\ (last.called /\ last.result = "true") =>
          /\ LeafSet(last.req) \cap last.before = {}
          /\ \A a, b \in CoinIdx(last.req) :
                a # b => CoinLeaves(last.req.coins[a])
                           \cap CoinLeaves(last.req.coins[b]) = {}

\* An accepted bundle, then a bundle sharing a leaf with it: rejected as spent.
C1_Witness ==
    /\ Len(acceptedSets) = 1
    /\ last.called
    /\ last.result = "false"
    /\ last.why = "spent"
    /\ LeafSet(last.req) \cap acceptedSets[1] # {}

\* C2: every redeem either returns valid = true with every leaf of every
\* coin in the index, or returns valid = false with the index as it was
\* before the call.
C2_AllOrNothing ==
    last.called =>
        \/ last.result = "true" /\ LeafSet(last.req) \subseteq hset
        \/ last.result = "false" /\ hset = last.before

\* C3: a redeem that returns valid = false because a proof does not verify
\* leaves the double-spend index unchanged.
C3_InvalidProofNoChange ==
    (last.called /\ last.why = "proof") =>
        last.result = "false" /\ hset = last.before

\* C4: the verifying key a redeem checks a coin against is the one of the
\* coin's denom: two verified coins of different denom are checked against
\* different verifying keys.
C4_VkOfDenom ==
    last.called =>
        \A a, b \in 1..Len(last.vks) :
            last.req.coins[a].denom # last.req.coins[b].denom
                => last.vks[a] # last.vks[b]

\* C5: the values of the accepted coins of one issued wallet sum to at
\* most 2^L.
C5_ValueIntegrity ==
    \A w \in Wallets : spent[w] <= Pow2(HEIGHT12)

\* The one-coin request of a coin.
OneCoin(coin) == [coins |-> <<coin>>]

\* A redeem of one coin with a satisfied proof on an empty index.
FreshValidCall(coin) ==
    /\ last.called
    /\ last.before = {}
    /\ last.req = OneCoin(coin)
    /\ Deserialize(coin.proof_bytes).val.sat

\* C6 as stated: on an empty index the coin of leaf 0 with denom = L, the
\* key GGM.eval(seed, bit_vec(0, L)), instance leaves[0] and a valid proof is
\* accepted.
C6_S1_DenomL ==
    FreshValidCall(DeepLeafCoin) => last.result = "true"

\* C6, amended: on an empty index the coin of leaf 0 with denom = 0 (the
\* depth GGM.expand is run to), the key GGM.eval(seed, bit_vec(0, L)),
\* instance leaves[0] and a valid proof is accepted.
C6_S1_Denom0 ==
    FreshValidCall(SubtreeCoin(HEIGHT12, 0)) => last.result = "true"

C6_Witness ==
    FreshValidCall(SubtreeCoin(HEIGHT12, 0)) /\ last.result = "true"

(* --------------------------------- C7 ---------------------------------- *)

\* The callers whose redeem returned a given result.
Returned(result) ==
    {w \in Workers : frames[w].pc = "returned" /\ frames[w].result = result}

\* C7: of the redeem calls for one valid single-leaf coin on one server,
\* once all have returned exactly one returned valid = true and the others
\* valid = false; and at no time are two calls inside redeem, so the
\* contains-checks and inserts of one are never interleaved with another's.
C7_ExactlyOne ==
    /\ Cardinality(borrowers) <= 1
    /\ Cardinality(Returned("true")) <= 1
    /\ (\A w \in Workers : frames[w].pc = "returned") =>
          /\ Cardinality(Returned("true")) = 1
          /\ Cardinality(Returned("false")) = MaxWorkers - 1

\* All callers have returned, one with true and one with false.
C7_Witness ==
    /\ \A w \in Workers : frames[w].pc = "returned"
    /\ Returned("true") # {}
    /\ Returned("false") # {}

(* ------------------------------ C8, C9 --------------------------------- *)

\* C8: every issue round trip issue_process(issue(issue_request())) of a
\* client, run with no other issuance under way, succeeds, and afterwards
\* the entry the request was made for holds Some(sig) with
\* verify(pk, entry.com, sig).
C8_RoundTrip ==
    \A t \in trips :
        t.direct =>
            /\ t.ok
            /\ wallet[t.k].sig.ok
            /\ verify(pk, wallet[t.k].com, wallet[t.k].sig.val)

\* The first round trip of a client succeeds.
C8_Witness ==
    /\ trips = {[k |-> 1, ok |-> TRUE, direct |-> TRUE]}
    /\ wallet[1].sig.ok
    /\ verify(pk, wallet[1].com, wallet[1].sig.val)

\* C9: every wallet entry has com = hash_two(root, open) with root the SMT
\* root of its leaves; its sig is None unless it verifies under pk on the
\* entry's com; and an issue_process whose response did not verify left
\* every sig as it was.
C9_WalletInvariant ==
    /\ \A k \in 1..Len(wallet) :
          /\ wallet[k].root = root(new_sequential(wallet[k].leaves, HEIGHT12))
          /\ wallet[k].com = hash_two(wallet[k].root, wallet[k].open)
          /\ wallet[k].sig.ok => verify(pk, wallet[k].com, wallet[k].sig.val)
    /\ (lastProc.called /\ ~lastProc.verified) =>
          \A k \in 1..Len(lastProc.before) : wallet[k].sig = lastProc.before[k].sig
    /\ (\E k \in 1..Len(wallet) : wallet[k].sig.ok) =>
          \E t \in trips : t.ok

\* An entry is signed, and the last response processed did not verify.
C9_Witness ==
    /\ Len(wallet) >= 1
    /\ wallet[1].sig.ok
    /\ lastProc.called
    /\ ~lastProc.verified

(* --------------------------------- C10 --------------------------------- *)

\* The leaf at a 0-based index of the batch, and the index next to it
\* under the same parent.
LeafAt(i) == mLeaves[i + 1]
PairOf(i) == IF i % 2 = 0 THEN i + 1 ELSE i - 1

\* check_membership answered Ok(true).
CheckedTrue == mChecked.res.ok /\ mChecked.res.val

\* C10 as stated: with the proof of index i, check_membership is true for
\* leaves[i], and is not true for any j # i with leaves[j] # leaves[i],
\* the sibling of i included.
C10_Soundness ==
    mChecked.called =>
        /\ mChecked.j = mProof.index => CheckedTrue
        /\ (mChecked.j # mProof.index
              /\ LeafAt(mChecked.j) # LeafAt(mProof.index)) => ~CheckedTrue

\* C10, amended: with the proof of index i of a tree of height N >= 1,
\* check_membership is Ok(true) for leaves[i] and for every leaf equal to
\* one of the two leaves of i's bottom pair (so for the sibling of i), and
\* fails with InvalidLeaf for every other leaf; it never answers Ok(false).
C10_PairSoundness ==
    mChecked.called =>
        IF LeafAt(mChecked.j) \in {LeafAt(mProof.index), LeafAt(PairOf(mProof.index))}
        THEN CheckedTrue
        ELSE ~mChecked.res.ok /\ mChecked.res.err = "InvalidLeaf"

\* On a tree of four leaves, the leaf next to i, of another value than
\* leaves[i], checked with the proof of i: Ok(true).
C10_Witness ==
    /\ mChecked.called
    /\ mN = 2
    /\ mChecked.j = PairOf(mProof.index)
    /\ LeafAt(mChecked.j) # LeafAt(mProof.index)
    /\ CheckedTrue

(* ------------------------------ C11, C19 ------------------------------- *)

\* The d-bit label of i, most significant bit first; a set bit is TRUE.
RECURSIVE MsbFirst(_, _)
MsbFirst(i, d) ==
    IF d = 0 THEN <<>>
    ELSE Append(MsbFirst(i \div 2, d - 1), i % 2 = 1)

\* C11: expand(k, d) has 2^d leaves and its leaf i equals eval(k, x) for
\* x = u16_to_bv(i, d), which is the d-bit MSB-first label of i.
C11_GGMConsistency ==
    /\ gLeaves # <<>> => Len(gLeaves) = Pow2(gDepth)
    /\ gEval.called => u16_to_bv(gEval.i, gDepth) = MsbFirst(gEval.i, gDepth)
    /\ (gLeaves # <<>> /\ gEval.called) => gLeaves[gEval.i + 1] = gEval.out

\* A tree of the full depth expanded, and the leaf of a label with both
\* bit values evaluated.
C11_Witness ==
    /\ gDepth = MaxDepth
    /\ gLeaves # <<>>
    /\ gEval.called
    /\ gEval.i = Pow2(gDepth) - 2
    /\ gLeaves[gEval.i + 1] = gEval.out

\* C19: the blocks of PRG::eval(k) are (evalf(false, k), evalf(true, k)).
C19_PRGAgreement ==
    (gBlocks # <<>> /\ gF.called) =>
        gBlocks[IF gF.bit THEN 2 ELSE 1] = gF.out

\* Both PRG::eval and PRG::evalf(true, ..) have run on the key.
C19_Witness ==
    /\ gBlocks # <<>>
    /\ gF.called
    /\ gF.bit
    /\ gBlocks[2] = gF.out

(* --------------------------------- C12 --------------------------------- *)

\* C12: a signature of sign(sk, m) verifies on m under the public key of
\* sk, its recomputed commitment s*G + e*pk being k*G; on a message other
\* than m it does not verify.
C12_SchnorrCorrect ==
    /\ sSig.ok =>
          PointAdd(PointMul(generator, sSig.val.prover_response),
                   PointMul(pk, ScalarFromBytes(sSig.val.verifier_challenge)))
              = PointMul(generator, testRng)
    /\ sVer.called => (sVer.res <=> sVer.msg = sMsg)

\* A signature under a non-zero key with a non-zero challenge, verified on
\* its message.
C12_Witness ==
    /\ sk # 0
    /\ sSig.ok
    /\ ScalarFromBytes(sSig.val.verifier_challenge) # 0
    /\ sVer.called
    /\ sVer.msg = sMsg
    /\ sVer.res

(* --------------------------- C15, C16, C17, C20 ------------------------ *)

\* C15: every redeem call returns a response, valid = true or valid =
\* false, whatever the bytes of its coins.
C15_AlwaysResponds ==
    last.called => last.result \in {"true", "false"}

\* The instance and the proof a coin carries, and whether both deserialize.
InstanceOf(coin) == Deserialize(coin.instance_bytes).val
ProofOf(coin) == Deserialize(coin.proof_bytes).val
Wellformed(coin) ==
    Deserialize(coin.instance_bytes).ok /\ Deserialize(coin.proof_bytes).ok

\* The three ways a coin of a bundle is invalid: its key does not lead to
\* its instance; one of its leaves is in the index or in an earlier coin of
\* the bundle; its proof is no satisfied full-height proof of its instance.
KeyMismatch(coin) ==
    from_le_bytes_mod_order(GGM_expand(coin.key, coin.denom)[1]) # InstanceOf(coin)
AlreadySpent(req, i, before) ==
    CoinLeaves(req.coins[i])
        \cap (before \cup UNION {CoinLeaves(req.coins[k]) : k \in 1..(i - 1)}) # {}
ProofFails(coin) ==
    ~(/\ ProofOf(coin).circ = HEIGHT12
      /\ ProofOf(coin).sat
      /\ ProofOf(coin).input = InstanceOf(coin))
InvalidAt(req, i, before) ==
    \/ KeyMismatch(req.coins[i])
    \/ AlreadySpent(req, i, before)
    \/ ProofFails(req.coins[i])

\* C16: a bundle with an invalid coin (key/instance mismatch, a leaf
\* already spent, or a proof that does not verify) is answered valid =
\* false, wherever that coin stands and whatever surrounds it.
C16_InvalidCoinRejects ==
    (/\ last.called
     /\ \E i \in CoinIdx(last.req) :
            Wellformed(last.req.coins[i]) /\ InvalidAt(last.req, i, last.before))
        => last.result = "false"

\* The same for the bundles all of whose coins deserialize.
WellformedBundleRejected ==
    (/\ last.called
     /\ \A i \in CoinIdx(last.req) : Wellformed(last.req.coins[i])
     /\ \E i \in CoinIdx(last.req) : InvalidAt(last.req, i, last.before))
        => last.result = "false"

\* A genuine unspent coin followed by a coin whose only defect is its
\* proof: rejected.
C16_Witness ==
    /\ last.called
    /\ Len(last.req.coins) = 2
    /\ ~InvalidAt(last.req, 1, last.before)
    /\ ~KeyMismatch(last.req.coins[2])
    /\ ~AlreadySpent(last.req, 2, last.before)
    /\ ProofFails(last.req.coins[2])
    /\ last.result = "false"

\* C17: the redeem of a valid coin whose instance_bytes were replaced by
\* the encoding of another field element returns valid = false and leaves
\* the index as it was.
C17_S5_SwappedInstance ==
    (last.called /\ last.req = OneCoin(SwappedInstanceCoin)
        /\ ProofOf(SwappedInstanceCoin).sat)
        => last.result = "false" /\ hset = last.before

C17_Witness ==
    /\ last.called
    /\ last.req = OneCoin(SwappedInstanceCoin)
    /\ ProofOf(SwappedInstanceCoin).sat
    /\ last.before = {}
    /\ last.result = "false"
    /\ hset = {}

\* A coin the server is meant to accept on its own.
ValidCoin(coin) ==
    Wellformed(coin) /\ ~KeyMismatch(coin) /\ ~ProofFails(coin)

\* The leaves a bundle declares: 2^denom per coin.
RECURSIVE DeclaredLeaves(_, _)
DeclaredLeaves(req, n) ==
    IF n = 0 THEN 0
    ELSE Pow2(req.coins[n].denom) + DeclaredLeaves(req, n - 1)

\* A bundle of valid coins with pairwise disjoint leaf sets, none in the
\* index.
FreshBundle(req, before) ==
    /\ \A i \in CoinIdx(req) : ValidCoin(req.coins[i])
    /\ \A i \in CoinIdx(req) : ~AlreadySpent(req, i, before)

\* C20: a bundle of valid coins, pairwise disjoint and disjoint from the
\* index, is accepted, and the index afterwards is the index before plus
\* the leaves of the coins, 2^denom new entries per coin.
C20_FreshBundleAccepted ==
    (last.called /\ FreshBundle(last.req, last.before)) =>
        /\ last.result = "true"
        /\ hset = last.before \cup LeafSet(last.req)
        /\ Cardinality(hset)
              = Cardinality(last.before) + DeclaredLeaves(last.req, Len(last.req.coins))

\* Two valid coins of different denom accepted on an index that held
\* leaves already.
C20_Witness ==
    /\ last.called
    /\ last.before # {}
    /\ Len(last.req.coins) = 2
    /\ last.req.coins[1].denom # last.req.coins[2].denom
    /\ FreshBundle(last.req, last.before)
    /\ last.result = "true"

(* ---------------------------- C13, C14, C18 ---------------------------- *)

\* The positions of the coins the client has emitted: request, coin.
EmittedAt ==
    {p \in (1..MaxEmit) \X (1..MaxCoins) :
        p[1] <= Len(emitted) /\ p[2] <= Len(emitted[p[1]].coins)}
EmittedCoin(p) == emitted[p[1]].coins[p[2]]

\* C13: the coins a client emits from its wallet, over every sequence of
\* precompute_proofs and redeem_request calls, have pairwise disjoint
\* leaves: no coin and no leaf is in two redeem requests.
C13_EmittedDisjoint ==
    \A p, q \in EmittedAt :
        p # q => CoinLeaves(EmittedCoin(p)) \cap CoinLeaves(EmittedCoin(q)) = {}

\* The set bits of a value.
RECURSIVE PopCount(_)
PopCount(v) == IF v = 0 THEN 0 ELSE (v % 2) + PopCount(v \div 2)

\* The leaves the coins of an emitted request stand for, counted per coin.
RECURSIVE LeafCount(_, _)
LeafCount(coins, n) ==
    IF n = 0 THEN 0
    ELSE Cardinality(CoinLeaves(coins[n])) + LeafCount(coins, n - 1)

\* C14: redeem_request(v) returns one coin per set bit of v, over
\* non-overlapping subtrees, with leaf counts that sum to v.
C14_BinaryDecomposition ==
    \A a \in 1..Len(emitted) :
        LET e == emitted[a]
        IN  /\ Len(e.coins) = PopCount(e.n)
            /\ LeafCount(e.coins, Len(e.coins)) = e.n
            /\ \A i, j \in 1..Len(e.coins) :
                  i # j => CoinLeaves(e.coins[i]) \cap CoinLeaves(e.coins[j]) = {}

\* C18: an issue_process whose response decodes to a signature that does
\* not verify on the entry's com reports an error without aborting, and
\* the entry is gone from the wallet afterwards.
C18_DiscardOnBadSignature ==
    (lastProc.called /\ lastProc.decoded /\ ~lastProc.verified) =>
        /\ ~panicked
        /\ Len(lastProc.after) = Len(lastProc.before) - 1

(* ------------------------------ C21, C22 ------------------------------- *)

\* The leaves of the expanded tree below the node i of level j.
SliceOf(j, i) ==
    SubSeq(gLeaves, i * Pow2(gDepth - j) + 1, (i + 1) * Pow2(gDepth - j))

\* C21: the expansion of the subkey eval(k, p) of a j-bit prefix p over the
\* d - j levels that remain is the slice of expand(k, d) below the node of
\* p, and holds no leaf of the tree outside that slice.
C21_ConstrainedDelegation ==
    (gLeaves # <<>> /\ gSub.called) =>
        /\ gSub.out = SliceOf(gSub.j, gSub.i)
        /\ \A n \in 1..Len(gLeaves) :
              (\E m \in 1..Len(gSub.out) : gSub.out[m] = gLeaves[n])
                  <=> /\ n > gSub.i * Pow2(gDepth - gSub.j)
                      /\ n <= (gSub.i + 1) * Pow2(gDepth - gSub.j)

\* An inner node that is neither the root nor a leaf, not the leftmost of
\* its level, delegated in a tree of the full depth.
C21_Witness ==
    /\ gDepth = MaxDepth
    /\ gLeaves # <<>>
    /\ gSub.called
    /\ gSub.j = 1
    /\ gSub.i = 1
    /\ Len(gSub.out) = Pow2(gDepth - 1)
    /\ gSub.out = SliceOf(1, 1)

\* C22: get_index on the proof of leaf i, asked for leaves[i], returns i,
\* also when a node of the path equals its sibling.
C22_GetIndex ==
    (mProof.ok /\ mIndex.called /\ mIndex.j = mProof.index) =>
        mIndex.res.ok /\ mIndex.res.val = mProof.index

\* The same for the leaves none of whose path nodes equals its sibling.
DistinctPairs == \A k \in 1..Len(mProof.path) : mProof.path[k][1] # mProof.path[k][2]
GetIndexDistinct ==
    (mProof.ok /\ mIndex.called /\ mIndex.j = mProof.index /\ DistinctPairs) =>
        mIndex.res.ok /\ mIndex.res.val = mProof.index

\* get_index returns the index of the leaf asked on a path of distinct
\* pairs, for a right leaf under a right node.
C22_Witness ==
    /\ mN = MerkleN
    /\ mProof.ok
    /\ mIndex.called
    /\ mIndex.j = mProof.index
    /\ mProof.index = Pow2(mN) - 1
    /\ DistinctPairs
    /\ mIndex.res.ok
    /\ mIndex.res.val = mProof.index

(* --------------------------------- C23 --------------------------------- *)

\* C23: the double-spend index is append-only: no step of the server, an
\* issue or a redeem that succeeds or fails, removes a leaf from it.
C23_AppendOnly == [][hset \subseteq hset']_vars

\* A redeem has failed on an index that held leaves, and they are still
\* there.
C23_Witness ==
    /\ last.called
    /\ last.result = "false"
    /\ last.before # {}
    /\ last.before \subseteq hset
    /\ \E w \in Wallets : signed[w].ok

(* --------------------------------- C24 --------------------------------- *)

\* The pairwise fold of a sequence of 2^n field elements.
RECURSIVE PairFold(_)
PairFold(seq) ==
    IF Len(seq) = 1 THEN seq[1]
    ELSE LET half == Len(seq) \div 2
         IN  hash_two(PairFold(SubSeq(seq, 1, half)),
                      PairFold(SubSeq(seq, half + 1, Len(seq))))

C25_ClientCoinRedeems ==
    \A a \in 1..Len(emitted) :
        /\ \A i \in 1..Len(emitted[a].coins) :
              /\ ~KeyMismatch(emitted[a].coins[i])
              /\ emitted[a].coins[i].key # wallet[1].key
        /\ redeem({}, [coins |-> emitted[a].coins]).f.result = "true"

\* C26: the server's response to the k-th issue_request, processed by
\* issue_process, is verified on the k-th entry and sets its sig, however
\* many issuances are outstanding.
C26_KthEntryFinalized ==
    \A t \in trips :
        /\ t.ok
        /\ wallet[t.k].sig.ok
        /\ verify(pk, wallet[t.k].com, wallet[t.k].sig.val)

(* --------------------------------- C27 --------------------------------- *)

\* C27: Server::new of every variant makes height + 1 proving keys and
\* height + 1 verifying keys, the pair at index h for the circuit of height
\* h, and the lookups of redeem (groth_vks) and of precompute_proofs
\* (groth_pks[$height]) are within the vectors.
C27_KeysInBounds ==
    /\ Len(groth_pks) = height + 1
    /\ Len(groth_vks) = height + 1
    /\ \A h \in 0..height : groth_pks[h + 1] = h /\ groth_vks[h + 1] = h
    /\ height + 1 <= Len(groth_pks)
    /\ last.called => last.why # "index"

\* The same without the lookup of redeem.
KeysPerHeight ==
    /\ Len(groth_pks) = height + 1
    /\ Len(groth_vks) = height + 1
    /\ \A h \in 0..height : groth_pks[h + 1] = h /\ groth_vks[h + 1] = h
    /\ height + 1 <= Len(groth_pks)

(* --------------------------------- C28 --------------------------------- *)

\* C28: redeem materializes at most 2^L leaves for a coin: a coin of denom
\* above L is rejected without being expanded.
C28_ExpansionBounded ==
    last.called => last.expanded <= Pow2(HEIGHT12)
(* ------------------------------ C29, C30 -------------------------------- *)

\* The rounds in which reset_state came before issue_request: the client
\* held no token when the request was made.
RoundAfterReset == sapSent.called /\ sapSent.before = 0

\* C29: in every issuance round on one sap client, with or without
\* reset_state before it, issue_request(n) sends exactly the n blinded tokens
\* it created, and an issue_process that verifies the batch proof ends with
\* as many unblinded tokens as tokens, its assertion holding.
C29_RoundKeepsLengths ==
    /\ sapSent.called => Len(sapSent.blinded) = sapSent.n
    /\ (sapProc.called /\ sapProc.verified) =>
           (~sapProc.panic /\ sapProc.tokens = sapProc.unblinded)

\* What does hold: the same for the rounds that start from a client holding
\* no token, as the benches run them.
RoundAfterResetKeepsLengths ==
    RoundAfterReset =>
        /\ Len(sapSent.blinded) = sapSent.n
        /\ (sapPhase = "idle" /\ sapProc.called /\ sapProc.verified) =>
               (~sapProc.panic /\ sapProc.tokens = sapProc.unblinded)

\* The preimages of the coins of the last sap redeem request.
SapPreimages == {sapLast.coins[i].t : i \in 1..Len(sapLast.coins)}

\* C30: sap redeem records as spent the preimages of the bundles it accepts
\* and no other; a rejected bundle leaves the spent set as it was, and a
\* bundle holding a preimage accepted before is rejected.
C30_RejectedLeavesSpentSet ==
    /\ bloom = sapAccepted
    /\ sapLast.called =>
           /\ ~sapLast.valid => bloom = sapLast.before
           /\ (SapPreimages \cap sapLast.accepted # {}) => ~sapLast.valid

\* What does hold: nothing accepted is accepted again, and every accepted
\* preimage is recorded.
AcceptedOnce ==
    /\ sapAccepted \subseteq bloom
    /\ sapLast.called =>
           ((SapPreimages \cap sapLast.accepted # {}) => ~sapLast.valid)

====
